---- MODULE Spec2Model ----
(***************************************************************************)
(* Capital Adequacy Stress Testing Model (Streamlit script).               *)
(*                                                                         *)
(* The program is one script that Streamlit runs from top to bottom on     *)
(* every widget interaction.  The state is the value of every widget, the  *)
(* process-wide numpy generator, and the namespace the last run of the     *)
(* script left behind.  Every action is one widget interaction followed by *)
(* the whole rerun of the script.                                          *)
(*                                                                         *)
(* Numbers: the script computes with Python floats.  They are modelled as  *)
(* exact rationals <<n, d>> (d > 0, lowest terms), i.e. the arithmetic is  *)
(* the script's arithmetic up to floating-point rounding.                  *)
(***************************************************************************)
EXTENDS Integers, Sequences, FiniteSets, TLC

\* ------------------------------------------------------------ arithmetic
\* An operator's argument is bound by a singleton set ({e : x \in {a}}) where
\* it is read more than once: a bound variable holds a value, computed once.

Abs(x) == IF x < 0 THEN -x ELSE x

RECURSIVE GCD(_, _)
GCD(a, b) == CHOOSE g \in {IF y = 0 THEN x ELSE GCD(y, x % y) : x \in {a}, y \in {b}} : TRUE

\* The rational n/d in lowest terms (d # 0).
Rat(n, d) ==
    CHOOSE r \in {<<((IF e < 0 THEN -1 ELSE 1) * m) \div g, Abs(e) \div g>> :
                  m \in {n}, e \in {d}, g \in {GCD(Abs(n), Abs(d))}} : TRUE

Num(k) == <<k, 1>>

FAdd(a, b) ==
    CHOOSE r \in {Rat(x[1] * y[2] + y[1] * x[2], x[2] * y[2]) : x \in {a}, y \in {b}} : TRUE
FSub(a, b) ==
    CHOOSE r \in {Rat(x[1] * y[2] - y[1] * x[2], x[2] * y[2]) : x \in {a}, y \in {b}} : TRUE
\* Cross-cancel before multiplying, so that the products stay small.
FMul(a, b) ==
    CHOOSE r \in {IF x[1] = 0 \/ y[1] = 0 THEN <<0, 1>>
                  ELSE CHOOSE q \in {<<(x[1] \div g1) * (y[1] \div g2),
                                       (x[2] \div g2) * (y[2] \div g1)>> :
                                     g1 \in {GCD(Abs(x[1]), y[2])},
                                     g2 \in {GCD(Abs(y[1]), x[2])}} : TRUE :
                  x \in {a}, y \in {b}} : TRUE
FIsZero(a) == a[1] = 0
\* Python's true division; the caller raises ZeroDivisionError when b = 0.
FDiv(a, b) == CHOOSE r \in {FMul(a, Rat(y[2], y[1])) : y \in {b}} : TRUE
FLess(a, b) == CHOOSE r \in {x[1] * y[2] < y[1] * x[2] : x \in {a}, y \in {b}} : TRUE
FLeq(a, b) == CHOOSE r \in {x[1] * y[2] <= y[1] * x[2] : x \in {a}, y \in {b}} : TRUE

Hundred == Num(100)
Zero == Num(0)

\* Python's None, a name the run never bound, and numpy's nan.
\* Each is a 1-tuple, so that it compares with a number or a triple.
None == <<"None">>
Unbound == <<"unbound">>
NaN == <<"nan">>

\* What a computation that may raise yields: the value, or the exception's name.
Value(v) == [err |-> "ok", value |-> v]
Raise(e) == [err |-> e, value |-> Unbound]

\* n/d (n >= 0, d > 0) in hundredths, rounded half to even.
Hundredths(n, d) ==
    LET q == (n * 100) \div d
        r == (n * 100) % d
    IN  IF 2 * r > d \/ (2 * r = d /\ q % 2 = 1) THEN q + 1 ELSE q

\* f"{x:.2f}": the sign and the hundredths of x.
Fmt2(x) ==
    CHOOSE s \in {<<IF v[1] < 0 THEN "-" ELSE "+", Hundredths(Abs(v[1]), v[2]), "f">> :
                  v \in {x}} : TRUE

\* ------------------------------------------------------------- scenarios

\* A stress triple (interest_rate_hike, credit_loss_rate, market_shock), in percent.
Triple(h, c, m) == <<h, c, m>>
interest_rate_hike(t) == t[1]
credit_loss_rate(t) == t[2]
market_shock(t) == t[3]

\* The options of the three select boxes.
ScenarioOptions ==
    <<"Baseline (No Stress)", "Mild Recession", "Severe Recession",
      "Interest Rate Shock", "Market Crash", "Credit Crisis", "Inflation Shock",
      "Liquidity Stress", "Currency Devaluation", "Custom Scenario">>

Options == {ScenarioOptions[i] : i \in 1..Len(ScenarioOptions)}

\* Slip: the hike and the credit loss rate of Currency Devaluation swapped.
SetParametersSwapsFields(scenario, sliders) ==
    IF scenario = "Baseline (No Stress)" THEN Triple(Num(0), Num(0), Num(0))
    ELSE IF scenario = "Mild Recession" THEN Triple(Num(1), Num(2), Num(3))
    ELSE IF scenario = "Severe Recession" THEN Triple(Rat(5, 2), Num(5), Num(8))
    ELSE IF scenario = "Interest Rate Shock" THEN Triple(Num(3), Num(0), Num(0))
    ELSE IF scenario = "Market Crash" THEN Triple(Num(0), Num(0), Num(10))
    ELSE IF scenario = "Credit Crisis" THEN Triple(Rat(1, 2), Num(8), Num(3))
    ELSE IF scenario = "Inflation Shock" THEN Triple(Num(4), Num(1), Num(2))
    ELSE IF scenario = "Liquidity Stress" THEN Triple(Num(0), Num(3), Num(5))
    ELSE IF scenario = "Currency Devaluation" THEN Triple(Rat(5, 2), Rat(3, 2), Num(6))
    ELSE IF scenario = "Custom Scenario" THEN sliders
    ELSE Unbound

\* "Set Parameters Based on Scenario": the if/elif chain of the main section.
\* `sliders` are the values of the three Custom Scenario sliders.  A name that
\* matches no branch binds nothing.
SetParameters(scenario, sliders) ==
    IF scenario = "Baseline (No Stress)" THEN Triple(Num(0), Num(0), Num(0))
    ELSE IF scenario = "Mild Recession" THEN Triple(Num(1), Num(2), Num(3))
    ELSE IF scenario = "Severe Recession" THEN Triple(Rat(5, 2), Num(5), Num(8))
    ELSE IF scenario = "Interest Rate Shock" THEN Triple(Num(3), Num(0), Num(0))
    ELSE IF scenario = "Market Crash" THEN Triple(Num(0), Num(0), Num(10))
    ELSE IF scenario = "Credit Crisis" THEN Triple(Rat(1, 2), Num(8), Num(3))
    ELSE IF scenario = "Inflation Shock" THEN Triple(Num(4), Num(1), Num(2))
    ELSE IF scenario = "Liquidity Stress" THEN Triple(Num(0), Num(3), Num(5))
    ELSE IF scenario = "Currency Devaluation" THEN Triple(Rat(3, 2), Rat(5, 2), Num(6))
    ELSE IF scenario = "Custom Scenario" THEN sliders
    ELSE Unbound

\* get_scenario_parameters: the lookup of the comparison section.  Falling off
\* the end of the function returns None.
get_scenario_parameters(scenario, sliders) ==
    IF scenario = "Baseline (No Stress)" THEN Triple(Num(0), Num(0), Num(0))
    ELSE IF scenario = "Mild Recession" THEN Triple(Num(1), Num(2), Num(3))
    ELSE IF scenario = "Severe Recession" THEN Triple(Rat(5, 2), Num(5), Num(8))
    ELSE IF scenario = "Interest Rate Shock" THEN Triple(Num(3), Num(0), Num(0))
    ELSE IF scenario = "Market Crash" THEN Triple(Num(0), Num(0), Num(10))
    ELSE IF scenario = "Credit Crisis" THEN Triple(Rat(1, 2), Num(8), Num(3))
    ELSE IF scenario = "Inflation Shock" THEN Triple(Num(4), Num(1), Num(2))
    ELSE IF scenario = "Liquidity Stress" THEN Triple(Num(0), Num(3), Num(5))
    ELSE IF scenario = "Currency Devaluation" THEN Triple(Rat(3, 2), Rat(5, 2), Num(6))
    ELSE IF scenario = "Custom Scenario" THEN sliders
    ELSE None

\* ---------------------------------------------------------- stress logic

\* The stress logic with the names bound from the three losses and the ratio.
StressResult(interest_rate_loss, credit_losses, market_shock_loss, updated_cet1, ratio, err) ==
    [interest_rate_loss |-> interest_rate_loss,
     credit_losses |-> credit_losses,
     market_shock_loss |-> market_shock_loss,
     total_losses |-> FAdd(FAdd(interest_rate_loss, credit_losses), market_shock_loss),
     updated_cet1 |-> updated_cet1,
     updated_cet1_ratio |-> ratio,
     err |-> err]

\* Slip: the market shock loss scaled off the risk-weighted assets.
StressLogicShockOffRwa(f, t) ==
    CHOOSE r \in
        {StressResult(irl, cl, msl, FSub(f.initial_cet1, FAdd(FAdd(irl, cl), msl)),
                      IF FIsZero(f.risk_weighted_assets) THEN Unbound
                      ELSE FMul(FDiv(FSub(f.initial_cet1, FAdd(FAdd(irl, cl), msl)),
                                     f.risk_weighted_assets), Hundred),
                      IF FIsZero(f.risk_weighted_assets) THEN "ZeroDivisionError" ELSE "ok") :
         irl \in {FMul(f.risk_weighted_assets, FDiv(interest_rate_hike(t), Hundred))},
         cl \in {FMul(f.risk_weighted_assets, FDiv(credit_loss_rate(t), Hundred))},
         msl \in {FMul(f.risk_weighted_assets, FDiv(market_shock(t), Hundred))}} : TRUE

\* Slip: a guard that defaults the ratio to 0 instead of dividing by zero.
StressLogicDefaultsRatio(f, t) ==
    CHOOSE r \in
        {StressResult(irl, cl, msl, FSub(f.initial_cet1, FAdd(FAdd(irl, cl), msl)),
                      IF FIsZero(f.risk_weighted_assets) THEN Zero
                      ELSE FMul(FDiv(FSub(f.initial_cet1, FAdd(FAdd(irl, cl), msl)),
                                     f.risk_weighted_assets), Hundred),
                      "ok") :
         irl \in {FMul(f.risk_weighted_assets, FDiv(interest_rate_hike(t), Hundred))},
         cl \in {FMul(f.risk_weighted_assets, FDiv(credit_loss_rate(t), Hundred))},
         msl \in {FMul(f.initial_tier1, FDiv(market_shock(t), Hundred))}} : TRUE

\* Slip: the credit losses left out of the total.
StressLogicDropsCreditLosses(f, t) ==
    CHOOSE r \in
        {[StressResult(irl, cl, msl, FSub(f.initial_cet1, FAdd(irl, msl)),
                       IF FIsZero(f.risk_weighted_assets) THEN Unbound
                       ELSE FMul(FDiv(FSub(f.initial_cet1, FAdd(irl, msl)),
                                      f.risk_weighted_assets), Hundred),
                       IF FIsZero(f.risk_weighted_assets) THEN "ZeroDivisionError" ELSE "ok")
              EXCEPT !.total_losses = FAdd(irl, msl)] :
         irl \in {FMul(f.risk_weighted_assets, FDiv(interest_rate_hike(t), Hundred))},
         cl \in {FMul(f.risk_weighted_assets, FDiv(credit_loss_rate(t), Hundred))},
         msl \in {FMul(f.initial_tier1, FDiv(market_shock(t), Hundred))}} : TRUE

\* "Stress Testing Logic": the names the main section binds from the bank's
\* financials f and the stress triple t.  With risk_weighted_assets = 0 the
\* division raises ZeroDivisionError and updated_cet1_ratio is never bound.
StressLogic(f, t) ==
    CHOOSE r \in
        {[interest_rate_loss |-> interest_rate_loss,
          credit_losses |-> credit_losses,
          market_shock_loss |-> market_shock_loss,
          total_losses |-> FAdd(FAdd(interest_rate_loss, credit_losses), market_shock_loss),
          updated_cet1 |->
              FSub(f.initial_cet1,
                   FAdd(FAdd(interest_rate_loss, credit_losses), market_shock_loss)),
          updated_cet1_ratio |->
              IF FIsZero(f.risk_weighted_assets) THEN Unbound
              ELSE FMul(FDiv(FSub(f.initial_cet1,
                                  FAdd(FAdd(interest_rate_loss, credit_losses),
                                       market_shock_loss)),
                             f.risk_weighted_assets), Hundred),
          err |-> IF FIsZero(f.risk_weighted_assets) THEN "ZeroDivisionError" ELSE "ok"] :
         interest_rate_loss \in
             {FMul(f.risk_weighted_assets, FDiv(interest_rate_hike(t), Hundred))},
         credit_losses \in {FMul(f.risk_weighted_assets, FDiv(credit_loss_rate(t), Hundred))},
         market_shock_loss \in {FMul(f.initial_tier1, FDiv(market_shock(t), Hundred))}} : TRUE

\* One iteration of the Monte Carlo loop after its three draws: simulated_losses,
\* simulated_cet1 and simulated_cet1_ratio.
SimulatedRatio(f, t) ==
    LET simulated_losses ==
            FAdd(FAdd(FMul(f.risk_weighted_assets, FDiv(interest_rate_hike(t), Hundred)),
                      FMul(f.risk_weighted_assets, FDiv(credit_loss_rate(t), Hundred))),
                 FMul(f.initial_tier1, FDiv(market_shock(t), Hundred)))
        simulated_cet1 == FSub(f.initial_cet1, simulated_losses)
    IN  IF FIsZero(f.risk_weighted_assets) THEN Raise("ZeroDivisionError")
        ELSE Value(FMul(FDiv(simulated_cet1, f.risk_weighted_assets), Hundred))

\* Slip: the totals clamped to the ranges of the sliders.
Clamp(x, high) == IF FLess(Num(high), x) THEN Num(high) ELSE x
WhatIfTotalsClamped(current, what_if) ==
    Triple(Clamp(FAdd(current[1], what_if[1]), 5),
           Clamp(FAdd(current[2], what_if[2]), 10),
           Clamp(FAdd(current[3], what_if[3]), 10))

\* "Adjust based on the current rates": the what-if totals, field by field.
WhatIfTotals(current, what_if) ==
    Triple(FAdd(current[1], what_if[1]),
           FAdd(current[2], what_if[2]),
           FAdd(current[3], what_if[3]))

\* The what-if losses and what_if_cet1_ratio from the totals.
WhatIfRatio(f, total) ==
    LET what_if_interest_rate_loss == FMul(f.risk_weighted_assets, FDiv(total[1], Hundred))
        what_if_credit_losses == FMul(f.risk_weighted_assets, FDiv(total[2], Hundred))
        what_if_market_shock_loss == FMul(f.initial_tier1, FDiv(total[3], Hundred))
        what_if_total_losses ==
            FAdd(FAdd(what_if_interest_rate_loss, what_if_credit_losses), what_if_market_shock_loss)
        what_if_cet1 == FSub(f.initial_cet1, what_if_total_losses)
    IN  IF FIsZero(f.risk_weighted_assets) THEN Raise("ZeroDivisionError")
        ELSE Value(FMul(FDiv(what_if_cet1, f.risk_weighted_assets), Hundred))

\* "Compute Updated CET1 Ratios for Both Scenarios": total_losses_1 and
\* updated_cet1_ratio_scenario_1, then total_losses_2 and
\* updated_cet1_ratio_scenario_2.
UpdatedCet1RatioScenario1(f, t) ==
    LET total_losses_1 ==
            FAdd(FAdd(FMul(f.risk_weighted_assets, FDiv(interest_rate_hike(t), Hundred)),
                      FMul(f.risk_weighted_assets, FDiv(credit_loss_rate(t), Hundred))),
                 FMul(f.initial_tier1, FDiv(market_shock(t), Hundred)))
    IN  IF FIsZero(f.risk_weighted_assets) THEN Raise("ZeroDivisionError")
        ELSE Value(FMul(FDiv(FSub(f.initial_cet1, total_losses_1), f.risk_weighted_assets),
                        Hundred))

UpdatedCet1RatioScenario2(f, t) ==
    LET total_losses_2 ==
            FAdd(FAdd(FMul(f.risk_weighted_assets, FDiv(interest_rate_hike(t), Hundred)),
                      FMul(f.risk_weighted_assets, FDiv(credit_loss_rate(t), Hundred))),
                 FMul(f.initial_tier1, FDiv(market_shock(t), Hundred)))
    IN  IF FIsZero(f.risk_weighted_assets) THEN Raise("ZeroDivisionError")
        ELSE Value(FMul(FDiv(FSub(f.initial_cet1, total_losses_2), f.risk_weighted_assets),
                        Hundred))

\* Slip: the difference taken the other way round.
RatioDifferenceReversed(ratio_1, ratio_2) == FSub(ratio_1, ratio_2)

\* The difference the comparison metric shows: scenario 2 minus scenario 1.
RatioDifference(ratio_1, ratio_2) == FSub(ratio_2, ratio_1)

\* ------------------------------------------------------------ randomness

\* numpy's process-wide generator: a hidden state that every draw advances and
\* that alone decides the draw.  The model's generator walks RngMod states.  It
\* is seeded from the operating system's entropy; nothing shows the seed before
\* the first draw, and the model picks it there (Unseeded until then).
RngMod == 7
Seeds == 0..(RngMod - 1)
Unseeded == -1
\* The state j draws after state s.
RngAfter(s, j) == (s + 3 * j) % RngMod

\* np.random.uniform(low, high) on the state s the draw left behind:
\* low + (high - low) * random_sample(), random_sample() in [0, 1).
Uniform(low, high, s) == FAdd(Num(low), FMul(Num(high - low), Rat(s, RngMod)))

\* The triple iteration i (1, 2, ...) of the simulation loop draws when the
\* loop starts with the generator in state s: three draws an iteration.
Draw(s, i) ==
    Triple(Uniform(0, 5, RngAfter(s, 3 * i - 2)),
           Uniform(0, 10, RngAfter(s, 3 * i - 1)),
           Uniform(0, 10, RngAfter(s, 3 * i)))

\* Slip: the loop runs over range(n - 1).
SimulationLoopOffByOne(f, n, s) ==
    IF n - 1 <= 0
    THEN [np_random |-> s, draws |-> <<>>, simulation_results |-> <<>>, err |-> "ok"]
    ELSE IF FIsZero(f.risk_weighted_assets)
    THEN [np_random |-> RngAfter(s, 3), draws |-> <<Draw(s, 1)>>,
          simulation_results |-> <<>>, err |-> SimulatedRatio(f, Draw(s, 1)).err]
    ELSE [np_random |-> RngAfter(s, 3 * (n - 1)),
          draws |-> [i \in 1..(n - 1) |-> Draw(s, i)],
          simulation_results |-> [i \in 1..(n - 1) |-> SimulatedRatio(f, Draw(s, i)).value],
          err |-> "ok"]

\* The loop "for _ in range(num_simulations)" from generator state s: `draws`
\* the triples drawn and simulation_results the ratios appended, in order.
\* range(n) is empty for n <= 0.  Without RWA the first iteration raises
\* ZeroDivisionError after its draws.
SimulationLoop(f, n, s) ==
    IF n <= 0
    THEN [np_random |-> s, draws |-> <<>>, simulation_results |-> <<>>, err |-> "ok"]
    ELSE IF FIsZero(f.risk_weighted_assets)
    THEN [np_random |-> RngAfter(s, 3), draws |-> <<Draw(s, 1)>>,
          simulation_results |-> <<>>, err |-> SimulatedRatio(f, Draw(s, 1)).err]
    ELSE [np_random |-> RngAfter(s, 3 * n),
          draws |-> [i \in 1..n |-> Draw(s, i)],
          simulation_results |-> [i \in 1..n |-> SimulatedRatio(f, Draw(s, i)).value],
          err |-> "ok"]

\* The sum of xs[lo..hi].
RECURSIVE SeqSum(_, _, _)
SeqSum(xs, lo, hi) ==
    IF lo > hi THEN Zero
    ELSE IF lo = hi THEN xs[lo]
    ELSE FAdd(SeqSum(xs, lo, (lo + hi) \div 2), SeqSum(xs, (lo + hi) \div 2 + 1, hi))

\* np.mean of a list: nan for the empty list (a warning, no exception).
NpMean(xs) == IF Len(xs) = 0 THEN NaN ELSE FDiv(SeqSum(xs, 1, Len(xs)), Num(Len(xs)))

\* np.min and np.max of a list: ValueError for the empty list.
NpMin(xs) ==
    IF Len(xs) = 0 THEN Raise("ValueError")
    ELSE Value(CHOOSE x \in {xs[i] : i \in 1..Len(xs)} :
                   \A y \in {xs[i] : i \in 1..Len(xs)} : FLeq(x, y))
NpMax(xs) ==
    IF Len(xs) = 0 THEN Raise("ValueError")
    ELSE Value(CHOOSE x \in {xs[i] : i \in 1..Len(xs)} :
                   \A y \in {xs[i] : i \in 1..Len(xs)} : FLeq(y, x))

\* The simulation record of a run that did not reach the Monte Carlo block
\* ("unbound") or whose button was not pressed ("not run").
NoSimulation(state) ==
    [state |-> state, draws |-> <<>>, simulation_results |-> <<>>,
     mean |-> Unbound, min |-> Unbound, max |-> Unbound, written |-> <<>>, err |-> "ok"]

\* The three st.write lines after the loop, on simulation_results xs: np.mean
\* is written before np.min raises.
SimulationSummary(base, xs) ==
    IF Len(xs) = 0
    THEN [base EXCEPT !.mean = NpMean(xs), !.written = <<"Mean CET1 Ratio">>,
                      !.err = NpMin(xs).err]
    ELSE [base EXCEPT !.mean = NpMean(xs), !.min = NpMin(xs).value, !.max = NpMax(xs).value,
                      !.written = <<"Mean CET1 Ratio", "Minimum CET1 Ratio",
                                    "Maximum CET1 Ratio">>]

\* "Monte Carlo Simulation": the block under `if run_simulation:`.  `written`
\* are the lines it wrote before it ended or raised.
MonteCarlo(f, num_simulations, s) ==
    CHOOSE r \in
        {[np_random |-> loop.np_random,
          simulation |->
             IF loop.err # "ok"
             THEN [NoSimulation("run") EXCEPT !.draws = loop.draws, !.err = loop.err]
             ELSE SimulationSummary([NoSimulation("run") EXCEPT
                                        !.draws = loop.draws,
                                        !.simulation_results = loop.simulation_results],
                                    loop.simulation_results)] :
         loop \in {SimulationLoop(f, num_simulations, s)}} : TRUE

\* ------------------------------------------------------------ the script

\* The names one run of the script binds (Unbound: the run ended before the
\* line that binds it).  metric_* are what st.metric shows.
NoRun ==
    [err |-> "ok",
     triple |-> Unbound,
     interest_rate_loss |-> Unbound, credit_losses |-> Unbound,
     market_shock_loss |-> Unbound, total_losses |-> Unbound,
     updated_cet1 |-> Unbound, updated_cet1_ratio |-> Unbound,
     metric_initial_ratio |-> Unbound, metric_updated_ratio |-> Unbound,
     simulation |-> NoSimulation("unbound"),
     total_rates |-> Unbound, what_if_cet1_ratio |-> Unbound,
     metric_what_if_ratio |-> Unbound,
     parameters_1 |-> Unbound, parameters_2 |-> Unbound,
     updated_cet1_ratio_scenario_1 |-> Unbound, updated_cet1_ratio_scenario_2 |-> Unbound,
     ratio_difference |-> Unbound, metric_difference |-> Unbound]

\* The default of the custom sliders, in the sidebar and in the comparison.
CustomDefault == Triple(Num(1), Num(2), Num(5))

\* "Scenario Comparison", continuing the namespace ns.  Both calls of
\* get_scenario_parameters create the sliders keyed custom_hike, custom_loss and
\* custom_shock: with "Custom Scenario" on both sides the second call raises
\* Streamlit's duplicate-key error.  Unpacking None raises TypeError.
ComparisonRatios(ns, f, p1, p2) ==
    CHOOSE r \in
        {IF r1.err # "ok"
         THEN [ns EXCEPT !.parameters_1 = p1, !.parameters_2 = p2, !.err = r1.err]
         ELSE [ns EXCEPT !.parameters_1 = p1, !.parameters_2 = p2,
                         !.updated_cet1_ratio_scenario_1 = r1.value,
                         !.updated_cet1_ratio_scenario_2 = r2.value,
                         !.ratio_difference = RatioDifference(r1.value, r2.value),
                         !.metric_difference = Fmt2(RatioDifference(r1.value, r2.value))] :
         r1 \in {UpdatedCet1RatioScenario1(f, p1)},
         r2 \in {UpdatedCet1RatioScenario2(f, p2)}} : TRUE

Comparison(ns, w) ==
    CHOOSE r \in
        {IF p1 = None THEN [ns EXCEPT !.err = "TypeError"]
         ELSE IF w.scenario_1 = "Custom Scenario" /\ w.scenario_2 = "Custom Scenario"
              THEN [ns EXCEPT !.parameters_1 = p1, !.err = "DuplicateWidgetID"]
         ELSE IF p2 = None THEN [ns EXCEPT !.parameters_1 = p1, !.err = "TypeError"]
         ELSE ComparisonRatios(ns, w.financials, p1, p2) :
         p1 \in {get_scenario_parameters(w.scenario_1, w.comparison_sliders)},
         p2 \in {get_scenario_parameters(w.scenario_2, w.comparison_sliders)}} : TRUE

\* "What-If Analysis", continuing the namespace ns, then the comparison.
WhatIfAnalysis(ns, w) ==
    CHOOSE r \in
        {IF ratio.err # "ok"
         THEN [ns EXCEPT !.total_rates = WhatIfTotals(w.current_rates, w.what_if),
                         !.err = ratio.err]
         ELSE Comparison([ns EXCEPT !.total_rates = WhatIfTotals(w.current_rates, w.what_if),
                                    !.what_if_cet1_ratio = ratio.value,
                                    !.metric_what_if_ratio = Fmt2(ratio.value)], w) :
         ratio \in {WhatIfRatio(w.financials, WhatIfTotals(w.current_rates, w.what_if))}} : TRUE

\* "Monte Carlo Simulation" when the button was pressed, then the rest of the
\* script; `shown` is the namespace after the two metrics of the main section.
AfterStressTest(shown, w, s) ==
    IF ~w.run_simulation
    THEN [ns |-> WhatIfAnalysis([shown EXCEPT !.simulation = NoSimulation("not run")], w),
          np_random |-> s]
    ELSE CHOOSE r \in
        {IF mc.simulation.err # "ok"
         THEN [ns |-> [shown EXCEPT !.simulation = mc.simulation, !.err = mc.simulation.err],
               np_random |-> mc.np_random]
         ELSE [ns |-> WhatIfAnalysis([shown EXCEPT !.simulation = mc.simulation], w),
               np_random |-> mc.np_random] :
         mc \in {MonteCarlo(w.financials, w.num_simulations, s)}} : TRUE

\* The main section on the triple t: the stress logic and its two metrics.  The
\* first metric divides by risk_weighted_assets on its own.
StressTest(t, w, s) ==
    CHOOSE r \in
        {IF st.err # "ok"
         THEN [ns |-> [NoRun EXCEPT !.triple = t,
                                    !.interest_rate_loss = st.interest_rate_loss,
                                    !.credit_losses = st.credit_losses,
                                    !.market_shock_loss = st.market_shock_loss,
                                    !.total_losses = st.total_losses,
                                    !.updated_cet1 = st.updated_cet1,
                                    !.err = st.err],
               np_random |-> s]
         ELSE IF FIsZero(w.financials.risk_weighted_assets)
         THEN [ns |-> [NoRun EXCEPT !.triple = t,
                                    !.interest_rate_loss = st.interest_rate_loss,
                                    !.credit_losses = st.credit_losses,
                                    !.market_shock_loss = st.market_shock_loss,
                                    !.total_losses = st.total_losses,
                                    !.updated_cet1 = st.updated_cet1,
                                    !.updated_cet1_ratio = st.updated_cet1_ratio,
                                    !.err = "ZeroDivisionError"],
               np_random |-> s]
         ELSE AfterStressTest(
                  [NoRun EXCEPT !.triple = t,
                                !.interest_rate_loss = st.interest_rate_loss,
                                !.credit_losses = st.credit_losses,
                                !.market_shock_loss = st.market_shock_loss,
                                !.total_losses = st.total_losses,
                                !.updated_cet1 = st.updated_cet1,
                                !.updated_cet1_ratio = st.updated_cet1_ratio,
                                !.metric_initial_ratio =
                                    Fmt2(FMul(FDiv(w.financials.initial_cet1,
                                                   w.financials.risk_weighted_assets), Hundred)),
                                !.metric_updated_ratio = Fmt2(st.updated_cet1_ratio)],
                  w, s) :
         st \in {StressLogic(w.financials, t)}} : TRUE

\* One run of the whole script on the widget values w, with the generator in
\* state s: the namespace it leaves and the generator's state after it.  A
\* scenario that matched no branch leaves the triple unbound: NameError.
Script(w, s) ==
    CHOOSE r \in
        {IF t = Unbound THEN [ns |-> [NoRun EXCEPT !.err = "NameError"], np_random |-> s]
         ELSE StressTest(t, w, s) :
         t \in {SetParameters(w.scenario, w.custom_sliders)}} : TRUE

\* ----------------------------------------------------------------- state

VARIABLES
    initial_cet1,           \* number_input "Initial CET1 Capital ($M)"
    initial_tier1,          \* number_input "Initial Tier 1 Capital ($M)"
    risk_weighted_assets,   \* number_input "Risk-Weighted Assets (RWA) ($M)"
    current_rates,          \* the three "Current ... (%)" number inputs
    scenario,               \* selectbox "Select a Stress Scenario"
    custom_sliders,         \* the three sliders of the Custom Scenario branch
    num_simulations,        \* number_input "Number of Simulations"
    what_if,                \* the three "What-If: ..." sliders
    scenario_1,             \* selectbox "Select Scenario 1"
    scenario_2,             \* selectbox "Select Scenario 2"
    comparison_sliders,     \* the sliders get_scenario_parameters creates
    np_random,              \* state of numpy's process-wide generator
    script,                 \* the namespace of the last run of the script
    call                    \* the last direct call of a function of the script

vars ==
    <<initial_cet1, initial_tier1, risk_weighted_assets, current_rates, scenario,
      custom_sliders, num_simulations, what_if, scenario_1, scenario_2,
      comparison_sliders, np_random, script, call>>

\* The values the model lets the user enter.  initial_total_capital is read by
\* no line of the script and is left out.
Cet1Values == {Num(1000), Num(600)}
Tier1Values == {Num(1200), Num(0)}
RwaValues == {Num(12000), Num(6000), Num(0)}
CurrentRateValues == <<{Num(3), Num(0)}, {Num(2), Num(0)}, {Num(1), Num(0)}>>
CustomSliderValues == <<{Num(1), Rat(5, 2)}, {Num(2), Num(5)}, {Num(5), Num(3)}>>
WhatIfValues == <<{Num(0), Num(5)}, {Num(0), Num(10)}, {Num(0), Num(10)}>>
SimulationCounts == {100, 200, 1000}

Financials(c, t, r) == [initial_cet1 |-> c, initial_tier1 |-> t, risk_weighted_assets |-> r]

\* The widget values as they stand.
Widgets ==
    [financials |-> Financials(initial_cet1, initial_tier1, risk_weighted_assets),
     current_rates |-> current_rates,
     scenario |-> scenario,
     custom_sliders |-> custom_sliders,
     num_simulations |-> num_simulations,
     run_simulation |-> FALSE,
     what_if |-> what_if,
     scenario_1 |-> scenario_1,
     scenario_2 |-> scenario_2,
     comparison_sliders |-> comparison_sliders]

\* No function called directly, and a call whose function has not run yet.
Pending == [err |-> "pending", value |-> Unbound]
NoCall == [fn |-> "none", args |-> <<>>, result |-> Pending]

\* A widget that a completed run did not create loses its value: the custom
\* sliders exist only under "Custom Scenario".
SlidersAfter(w) ==
    IF w.scenario = "Custom Scenario" THEN w.custom_sliders ELSE CustomDefault
ComparisonSlidersAfter(w, ns) ==
    IF ns.err = "ok" /\ w.scenario_1 # "Custom Scenario" /\ w.scenario_2 # "Custom Scenario"
    THEN CustomDefault ELSE w.comparison_sliders

\* Streamlit reruns the script on the widget values w.
RerunOn(ww, run) ==
        /\ initial_cet1' = ww.financials.initial_cet1
        /\ initial_tier1' = ww.financials.initial_tier1
        /\ risk_weighted_assets' = ww.financials.risk_weighted_assets
        /\ current_rates' = ww.current_rates
        /\ scenario' = ww.scenario
        /\ custom_sliders' = ww.custom_sliders
        /\ num_simulations' = ww.num_simulations
        /\ what_if' = ww.what_if
        /\ scenario_1' = ww.scenario_1
        /\ scenario_2' = ww.scenario_2
        /\ comparison_sliders' = ComparisonSlidersAfter(ww, run.ns)
        /\ np_random' = run.np_random
        /\ script' = run.ns
        /\ call' = call
Rerun(w) ==
    \E ww \in {[w EXCEPT !.custom_sliders = SlidersAfter(w)]} :
        \E s \in (IF w.run_simulation /\ np_random = Unseeded THEN Seeds ELSE {np_random}) :
            \E run \in {Script(ww, s)} : RerunOn(ww, run)

\* The first run of the script, every widget at its default.
DefaultWidgets ==
    [financials |-> Financials(Num(1000), Num(1200), Num(12000)),
     current_rates |-> Triple(Num(3), Num(2), Num(1)),
     scenario |-> "Baseline (No Stress)",
     custom_sliders |-> CustomDefault,
     num_simulations |-> 1000,
     run_simulation |-> FALSE,
     what_if |-> Triple(Num(0), Num(0), Num(0)),
     scenario_1 |-> "Baseline (No Stress)",
     scenario_2 |-> "Baseline (No Stress)",
     comparison_sliders |-> CustomDefault]

Init ==
    /\ initial_cet1 = DefaultWidgets.financials.initial_cet1
    /\ initial_tier1 = DefaultWidgets.financials.initial_tier1
    /\ risk_weighted_assets = DefaultWidgets.financials.risk_weighted_assets
    /\ current_rates = DefaultWidgets.current_rates
    /\ scenario = DefaultWidgets.scenario
    /\ custom_sliders = DefaultWidgets.custom_sliders
    /\ num_simulations = DefaultWidgets.num_simulations
    /\ what_if = DefaultWidgets.what_if
    /\ scenario_1 = DefaultWidgets.scenario_1
    /\ scenario_2 = DefaultWidgets.scenario_2
    /\ comparison_sliders = DefaultWidgets.comparison_sliders
    /\ np_random = Unseeded
    /\ script \in {Script(DefaultWidgets, np_random).ns}
    /\ call = NoCall

\* ---------------------------------------------------------------- actions

\* Which widgets the last run created: it stops at the line that raises.
ReachedMonteCarlo == script.updated_cet1_ratio # Unbound
ReachedWhatIf == script.total_rates # Unbound
ReachedComparison == script.what_if_cet1_ratio # Unbound
HasComparisonSliders ==
    \/ script.parameters_1 # Unbound /\ scenario_1 = "Custom Scenario"
    \/ script.parameters_2 # Unbound /\ scenario_2 = "Custom Scenario"

SetInitialCet1(v) == Rerun([Widgets EXCEPT !.financials.initial_cet1 = v])
SetInitialTier1(v) == Rerun([Widgets EXCEPT !.financials.initial_tier1 = v])
SetRiskWeightedAssets(v) == Rerun([Widgets EXCEPT !.financials.risk_weighted_assets = v])
SetCurrentRate(i, v) == Rerun([Widgets EXCEPT !.current_rates[i] = v])
SelectScenario(name) == Rerun([Widgets EXCEPT !.scenario = name])
SetCustomSlider(i, v) ==
    /\ scenario = "Custom Scenario"
    /\ Rerun([Widgets EXCEPT !.custom_sliders[i] = v])
SetNumSimulations(n) ==
    /\ ReachedMonteCarlo
    /\ Rerun([Widgets EXCEPT !.num_simulations = n])
RunSimulation ==
    /\ ReachedMonteCarlo
    /\ Rerun([Widgets EXCEPT !.run_simulation = TRUE])
SetWhatIf(i, v) ==
    /\ ReachedWhatIf
    /\ Rerun([Widgets EXCEPT !.what_if[i] = v])
SelectScenario1(name) ==
    /\ ReachedComparison
    /\ Rerun([Widgets EXCEPT !.scenario_1 = name])
SelectScenario2(name) ==
    /\ ReachedComparison
    /\ Rerun([Widgets EXCEPT !.scenario_2 = name])
SetComparisonSlider(i, v) ==
    /\ HasComparisonSliders
    /\ Rerun([Widgets EXCEPT !.comparison_sliders[i] = v])

ChangeFinancials ==
    \/ \E v \in Cet1Values : SetInitialCet1(v)
    \/ \E v \in Tier1Values : SetInitialTier1(v)
    \/ \E v \in RwaValues : SetRiskWeightedAssets(v)

\* The user works in the sidebar's scenario section.
NextMain ==
    \/ ChangeFinancials
    \/ \E name \in Options : SelectScenario(name)
    \/ \E i \in 1..3 : \E v \in CustomSliderValues[i] : SetCustomSlider(i, v)

SpecMain == Init /\ [][NextMain]_vars

\* The user works with the Monte Carlo simulation.
NextMonteCarlo ==
    \/ \E v \in RwaValues : SetRiskWeightedAssets(v)
    \/ \E n \in SimulationCounts : SetNumSimulations(n)
    \/ RunSimulation

SpecMonteCarlo == Init /\ [][NextMonteCarlo]_vars

\* The user works with the what-if analysis.
NextWhatIf ==
    \/ \E v \in Tier1Values : SetInitialTier1(v)
    \/ \E v \in RwaValues : SetRiskWeightedAssets(v)
    \/ \E i \in 1..3 : \E v \in CurrentRateValues[i] : SetCurrentRate(i, v)
    \/ \E i \in 1..3 : \E v \in WhatIfValues[i] : SetWhatIf(i, v)

SpecWhatIf == Init /\ [][NextWhatIf]_vars

\* The user works with the scenario comparison.
NextComparison ==
    \/ \E v \in Tier1Values : SetInitialTier1(v)
    \/ \E v \in RwaValues : SetRiskWeightedAssets(v)
    \/ \E name \in Options : SelectScenario1(name)
    \/ \E name \in Options : SelectScenario2(name)
    \/ \E i \in 1..3 : \E v \in CustomSliderValues[i] : SetComparisonSlider(i, v)

SpecComparison == Init /\ [][NextComparison]_vars

\* The user works with the three select boxes.
NextScenarios ==
    \/ \E name \in Options : SelectScenario(name)
    \/ \E name \in Options : SelectScenario1(name)
    \/ \E name \in Options : SelectScenario2(name)

SpecScenarios == Init /\ [][NextScenarios]_vars

\* Every interaction the page offers.
Next == NextMain \/ NextMonteCarlo \/ NextWhatIf \/ NextComparison

Spec == Init /\ [][Next]_vars

\* ----------------------------------------------------- the pieces, called
\* Each piece of the script applied to arguments of its own, as a caller or a
\* test of the piece gives them; the widgets stay as the first run left them.

app_vars ==
    <<initial_cet1, initial_tier1, risk_weighted_assets, current_rates, scenario,
      custom_sliders, num_simulations, what_if, scenario_1, scenario_2,
      comparison_sliders, np_random, script>>

CallFinancials ==
    {Financials(Num(1000), Num(1200), Num(12000)),
     Financials(Num(600), Num(0), Num(6000)),
     Financials(Num(1000), Num(1200), Num(0))}
CallNames == Options \cup {"Stagflation"}
CallTriples ==
    {SetParameters(name, CustomDefault) : name \in Options} \cup {Draw(s, 1) : s \in Seeds}
CallCounts == {-5, 0, 1, 2, 3}
CallCurrentRates == {Triple(Num(3), Num(2), Num(1)), Triple(Num(0), Num(0), Num(0))}
CallWhatIfs == {Triple(h, c, m) : h \in WhatIfValues[1], c \in WhatIfValues[2], m \in WhatIfValues[3]}

PendingCalls ==
    {[fn |-> fn, args |-> <<name>>, result |-> Pending] :
        fn \in {"get_scenario_parameters", "script"}, name \in CallNames}
    \cup {[fn |-> "monte_carlo", args |-> <<f, n, s>>, result |-> Pending] :
            f \in CallFinancials, n \in CallCounts, s \in Seeds}
    \cup {[fn |-> fn, args |-> <<f, t>>, result |-> Pending] :
            fn \in {"simulated_ratio", "scenario_1", "scenario_2"},
            f \in CallFinancials, t \in CallTriples}
    \cup {[fn |-> "what_if", args |-> <<f, current, delta>>, result |-> Pending] :
            f \in CallFinancials, current \in CallCurrentRates, delta \in CallWhatIfs}

InitCalls ==
    /\ initial_cet1 = DefaultWidgets.financials.initial_cet1
    /\ initial_tier1 = DefaultWidgets.financials.initial_tier1
    /\ risk_weighted_assets = DefaultWidgets.financials.risk_weighted_assets
    /\ current_rates = DefaultWidgets.current_rates
    /\ scenario = DefaultWidgets.scenario
    /\ custom_sliders = DefaultWidgets.custom_sliders
    /\ num_simulations = DefaultWidgets.num_simulations
    /\ what_if = DefaultWidgets.what_if
    /\ scenario_1 = DefaultWidgets.scenario_1
    /\ scenario_2 = DefaultWidgets.scenario_2
    /\ comparison_sliders = DefaultWidgets.comparison_sliders
    /\ np_random = Unseeded
    /\ script \in {Script(DefaultWidgets, np_random).ns}
    /\ call \in PendingCalls

Returns(fn, result) ==
    /\ call.fn = fn
    /\ call.result = Pending
    /\ call' = [call EXCEPT !.result = result]
    /\ UNCHANGED app_vars

\* get_scenario_parameters(name), the custom sliders at their defaults.
CallGetScenarioParameters ==
    Returns("get_scenario_parameters",
            Value(get_scenario_parameters(call.args[1], CustomDefault)))

\* The script run with the name as the main scenario: what it raised and the
\* triple it bound.
CallScript ==
    /\ call.fn = "script"
    /\ \E run \in {Script([DefaultWidgets EXCEPT !.scenario = call.args[1]], Unseeded).ns} :
           Returns("script", [err |-> run.err, value |-> run.triple])

\* The Monte Carlo block on financials, a number of simulations and a
\* generator state.
CallMonteCarlo ==
    Returns("monte_carlo", MonteCarlo(call.args[1], call.args[2], call.args[3]))

\* The ratio of one draw, of one side of the comparison, and of the what-if
\* analysis with the totals it is computed from.
CallSimulatedRatio == Returns("simulated_ratio", SimulatedRatio(call.args[1], call.args[2]))
CallScenario1 == Returns("scenario_1", UpdatedCet1RatioScenario1(call.args[1], call.args[2]))
CallScenario2 == Returns("scenario_2", UpdatedCet1RatioScenario2(call.args[1], call.args[2]))
CallWhatIf ==
    Returns("what_if",
            [total_rates |-> WhatIfTotals(call.args[2], call.args[3]),
             ratio |-> WhatIfRatio(call.args[1], WhatIfTotals(call.args[2], call.args[3]))])

NextCalls ==
    \/ CallGetScenarioParameters
    \/ CallScript
    \/ CallMonteCarlo
    \/ CallSimulatedRatio
    \/ CallScenario1
    \/ CallScenario2
    \/ CallWhatIf

SpecCalls == InitCalls /\ [][NextCalls]_vars

\* ------------------------------------------------------------ properties

CurrentFinancials == Financials(initial_cet1, initial_tier1, risk_weighted_assets)
Positive(x) == FLess(Zero, x)

\* C1: with RWA > 0 the run binds interest_rate_loss = RWA * hike / 100,
\* credit_losses = RWA * credit loss rate / 100, market_shock_loss = Tier 1 *
\* market shock / 100, total_losses their sum, updated_cet1 = CET1 - total_losses
\* and updated_cet1_ratio = updated_cet1 / RWA * 100; CET1 1000, Tier 1 1200, RWA
\* 12000 under (1, 2, 3) gives 120, 240, 36, 396 and 604; the all-zero triple
\* gives CET1 / RWA * 100.
C1_StressFormulas ==
    Positive(risk_weighted_assets) =>
        /\ script.err = "ok"
        /\ FMul(script.interest_rate_loss, Hundred)
               = FMul(risk_weighted_assets, interest_rate_hike(script.triple))
        /\ FMul(script.credit_losses, Hundred)
               = FMul(risk_weighted_assets, credit_loss_rate(script.triple))
        /\ FMul(script.market_shock_loss, Hundred)
               = FMul(initial_tier1, market_shock(script.triple))
        /\ script.total_losses
               = FAdd(FAdd(script.interest_rate_loss, script.credit_losses),
                      script.market_shock_loss)
        /\ script.updated_cet1 = FSub(initial_cet1, script.total_losses)
        /\ FMul(script.updated_cet1_ratio, risk_weighted_assets)
               = FMul(script.updated_cet1, Hundred)
        /\ (/\ CurrentFinancials = Financials(Num(1000), Num(1200), Num(12000))
            /\ script.triple = Triple(Num(1), Num(2), Num(3)))
           => /\ script.interest_rate_loss = Num(120)
              /\ script.credit_losses = Num(240)
              /\ script.market_shock_loss = Num(36)
              /\ script.total_losses = Num(396)
              /\ script.updated_cet1 = Num(604)
        /\ script.triple = Triple(Zero, Zero, Zero)
           => FMul(script.updated_cet1_ratio, risk_weighted_assets)
                  = FMul(initial_cet1, Hundred)

\* The run of the spec's example: 396 lost, 604 left.
C1_Witness ==
    /\ CurrentFinancials = Financials(Num(1000), Num(1200), Num(12000))
    /\ script.triple = Triple(Num(1), Num(2), Num(3))
    /\ script.total_losses = Num(396)
    /\ script.updated_cet1 = Num(604)
    /\ script.updated_cet1_ratio = Rat(604, 120)

\* C3: with risk_weighted_assets = 0 the run ends in ZeroDivisionError at the
\* ratio: no ratio is bound (none clamped or defaulted), no metric is shown and
\* nothing after the division runs.
C3_DivisionByZero ==
    FIsZero(risk_weighted_assets) =>
        /\ script.err = "ZeroDivisionError"
        /\ script.updated_cet1_ratio = Unbound
        /\ script.metric_initial_ratio = Unbound
        /\ script.metric_updated_ratio = Unbound
        /\ script.simulation = NoSimulation("unbound")
        /\ script.what_if_cet1_ratio = Unbound
        /\ script.ratio_difference = Unbound

\* A run without risk-weighted assets under a stressing scenario.
C3_Witness ==
    /\ FIsZero(risk_weighted_assets)
    /\ script.err = "ZeroDivisionError"
    /\ script.triple = Triple(Rat(5, 2), Num(5), Num(8))

\* The increments the monotonicity is tried with.
Increments == {Rat(1, 100), Num(1), Num(7)}
Increased(t, i, d) == [t EXCEPT ![i] = FAdd(t[i], d)]

Simulated == script.simulation.state = "run" /\ script.simulation.err = "ok"

\* The ratio the loop's arithmetic gives on the drawn triple t, times RWA.
RatioTimesRwa(t) ==
    FMul(FSub(initial_cet1,
              FDiv(FAdd(FAdd(FMul(risk_weighted_assets, t[1]), FMul(risk_weighted_assets, t[2])),
                        FMul(initial_tier1, t[3])), Hundred)), Hundred)

\* C7: a simulation of N >= 1 iterations ends after N draws of a triple; its
\* simulation_results has length N, the i-th being the ratio of the i-th draw,
\* and the mean written lies between the minimum and the maximum written.
C7_SimulationResults ==
    Simulated =>
        /\ num_simulations >= 1
        /\ Len(script.simulation.draws) = num_simulations
        /\ Len(script.simulation.simulation_results) = num_simulations
        /\ \A i \in 1..num_simulations :
               FMul(script.simulation.simulation_results[i], risk_weighted_assets)
                   = RatioTimesRwa(script.simulation.draws[i])
        /\ FLeq(script.simulation.min, script.simulation.mean)
        /\ FLeq(script.simulation.mean, script.simulation.max)
        /\ \A i \in 1..num_simulations :
               /\ FLeq(script.simulation.min, script.simulation.simulation_results[i])
               /\ FLeq(script.simulation.simulation_results[i], script.simulation.max)

\* A simulation of 200 iterations whose ratios are not all the same.
C7_Witness ==
    /\ Simulated
    /\ num_simulations = 200
    /\ Len(script.simulation.simulation_results) = 200
    /\ FLess(script.simulation.min, script.simulation.mean)
    /\ FLess(script.simulation.mean, script.simulation.max)

\* C6: two simulations of one process with the same financials and the same
\* number of iterations, the second following the first, give the same
\* simulation_results.
C6_Reproducible ==
    [][(/\ Simulated
        /\ Simulated'
        /\ initial_cet1' = initial_cet1
        /\ initial_tier1' = initial_tier1
        /\ risk_weighted_assets' = risk_weighted_assets
        /\ num_simulations' = num_simulations)
       => script'.simulation.simulation_results = script.simulation.simulation_results]_vars

\* The table of the predefined scenarios as the specification prints it.
PredefinedTable ==
    [name \in Options \ {"Custom Scenario"} |->
        CASE name = "Baseline (No Stress)" -> <<Num(0), Num(0), Num(0)>>
          [] name = "Mild Recession" -> <<Num(1), Num(2), Num(3)>>
          [] name = "Severe Recession" -> <<Rat(25, 10), Num(5), Num(8)>>
          [] name = "Interest Rate Shock" -> <<Num(3), Num(0), Num(0)>>
          [] name = "Market Crash" -> <<Num(0), Num(0), Num(10)>>
          [] name = "Credit Crisis" -> <<Rat(5, 10), Num(8), Num(3)>>
          [] name = "Inflation Shock" -> <<Num(4), Num(1), Num(2)>>
          [] name = "Liquidity Stress" -> <<Num(0), Num(3), Num(5)>>
          [] name = "Currency Devaluation" -> <<Rat(15, 10), Rat(25, 10), Num(6)>>]

\* C2: each of the nine predefined names resolves to the triple of the table,
\* in the main selection and in get_scenario_parameters on either side of the
\* comparison, so the two places give the same triple for the same name.
C2_ScenarioTable ==
    /\ Cardinality(DOMAIN PredefinedTable) = 9
    /\ scenario \in DOMAIN PredefinedTable => script.triple = PredefinedTable[scenario]
    /\ scenario_1 \in DOMAIN PredefinedTable
           => script.parameters_1 = PredefinedTable[scenario_1]
    /\ scenario_2 \in DOMAIN PredefinedTable
           => script.parameters_2 = PredefinedTable[scenario_2]
    /\ (scenario \in DOMAIN PredefinedTable /\ scenario_1 = scenario)
           => script.parameters_1 = script.triple
    /\ (scenario \in DOMAIN PredefinedTable /\ scenario_2 = scenario)
           => script.parameters_2 = script.triple

\* Currency Devaluation selected in the main section and on side 1.
C2_Witness ==
    /\ scenario = "Currency Devaluation"
    /\ scenario_1 = "Currency Devaluation"
    /\ scenario_2 = "Credit Crisis"
    /\ script.triple = <<Rat(3, 2), Rat(5, 2), Num(6)>>
    /\ script.parameters_1 = script.triple
    /\ script.parameters_2 = <<Rat(1, 2), Num(8), Num(3)>>

\* The comparison of the last run showed its difference.
Compared == script.ratio_difference # Unbound

\* The difference a run shows with the two scenarios swapped.
SwappedDifference ==
    Script([Widgets EXCEPT !.scenario_1 = scenario_2, !.scenario_2 = scenario_1],
           np_random).ns.ratio_difference

Returned(fn) == call.fn = fn /\ call.result # Pending

\* C4: get_scenario_parameters on a name that is none of the ten options
\* raises UnknownScenario; it returns neither a triple nor None.
C4_UnknownScenario ==
    (Returned("get_scenario_parameters") /\ call.args[1] \notin Options)
        => call.result.err = "UnknownScenario"

\* C5: the Monte Carlo block on a number of simulations <= 0 raises
\* InvalidSampleCount, draws nothing and writes no mean, minimum or maximum.
C5_InvalidSampleCount ==
    (Returned("monte_carlo") /\ call.args[2] <= 0)
        => /\ call.result.simulation.err = "InvalidSampleCount"
           /\ call.result.simulation.draws = <<>>
           /\ call.result.np_random = call.args[3]
           /\ call.result.simulation.written = <<>>
           /\ call.result.simulation.mean = Unbound

\* The main stress logic's ratio on financials f and triple t, or what it raises.
MainRatio(f, t) ==
    IF StressLogic(f, t).err = "ok" THEN Value(StressLogic(f, t).updated_cet1_ratio)
    ELSE Raise(StressLogic(f, t).err)

\* C10: the ratio of a Monte Carlo draw, of the what-if analysis and of either
\* side of the comparison is the main stress logic's ratio on the same
\* financials and triple; the what-if triple is the current rates plus the
\* what-if values field by field, unclamped.
C10_SameComputation ==
    /\ (Returned("simulated_ratio") \/ Returned("scenario_1") \/ Returned("scenario_2"))
           => call.result = MainRatio(call.args[1], call.args[2])
    /\ Returned("what_if")
           => /\ \A i \in 1..3 :
                     call.result.total_rates[i] = FAdd(call.args[2][i], call.args[3][i])
              /\ call.result.ratio = MainRatio(call.args[1], call.result.total_rates)
    /\ (Returned("monte_carlo") /\ call.result.simulation.err = "ok")
           => \A i \in 1..Len(call.result.simulation.simulation_results) :
                  Value(call.result.simulation.simulation_results[i])
                      = MainRatio(call.args[1], call.result.simulation.draws[i])

\* A what-if analysis whose totals exceed the ranges of the three sliders.
C10_Witness ==
    /\ Returned("what_if")
    /\ call.result.total_rates = Triple(Num(8), Num(12), Num(11))
    /\ call.args[1] = Financials(Num(1000), Num(1200), Num(12000))
    /\ call.result.ratio = Value(Rat(-383, 30))

====
